---- MODULE Spec2Model ----
(***************************************************************************)
(* lua-rados: Lua bindings for the RADOS object store client library.      *)
(*                                                                         *)
(* The model follows the C module (src/unnamed/part_000, the revision with *)
(* aio_read, wait_for_complete and the active_completions counter).  Each  *)
(* Lua-callable handler is one action.  The storage backend (librados) and *)
(* the Lua collector are the environment: a backend call returns a status  *)
(* chosen from BackendRets, the collector marks from the host's references *)
(* and the registry table and runs __gc on what it found unreachable.      *)
(***************************************************************************)
EXTENDS Integers, Sequences, FiniteSets, TLC

\* Bounds of the model: how many userdata of each type are ever allocated.
MaxClusters == 1
MaxIoctx == 2
MaxComps == 1
MaxBufs == 1

Clusters == 1..MaxClusters
Ioctxs == 1..MaxIoctx
Comps == 1..MaxComps
Bufs == 1..MaxBufs

\* errno values the module itself returns.
ENOMEM == 12
EINVAL == 22

\* Backend statuses: 0 is success, a negative errno is a failure (-ENOENT).
BackendRets == {0, -2}

\* Arguments the host passes as pool name: an existing pool, a pool that
\* does not exist (src/test.lua 99-102), and a value that is no string.
NoString == "<table>"
PoolArgs == {"rbd", "asdlfk", NoString}
ExistingPools == {"rbd"}

\* A userdata field that was never written holds "UNINIT" (lua_newuserdata
\* does not clear the block); reading it yields any pointer value, NULL or
\* not.
UninitPtr == {"NULL", "GARBAGE"}
ReadPtr(p) == IF p = "UNINIT" THEN UninitPtr ELSE {p}

VARIABLES
  cl,    \* lua_rados_t per cluster userdata: [state, cluster]
  bk,    \* the backend's view of each native cluster handle (call counts)
  io,    \* lua_ioctx_t per ioctx userdata: [state, io, owner]
  nat,   \* the backend's view of each native ioctx: [destroys, key]
  refs,  \* the registry table reg_key_rados_refs: ioctx -> cluster (0: no entry)
  host,  \* the userdata the host still references
  mem,   \* collector status of each userdata
  last,  \* the last handler call: its result tuple and the backend calls it made
  comp,  \* lua_completion_t per completion userdata
  tok,   \* the backend's view of each async token
  bufs,  \* the Rados.Buffer userdata of the synchronous reads
  active, \* active_completions
  heap   \* the allocator's view of the block behind each comp->buf

aioVars == <<comp, tok, bufs, active, heap>>
vars == <<cl, bk, io, nat, refs, host, mem, last, comp, tok, bufs, active, heap>>

CObj(c) == <<"cluster", c>>
IObj(i) == <<"ioctx", i>>
KObj(k) == <<"completion", k>>
BObj(b) == <<"buffer", b>>
Objects ==
  {CObj(c) : c \in Clusters} \cup {IObj(i) : i \in Ioctxs}
  \cup {KObj(k) : k \in Comps} \cup {BObj(b) : b \in Bufs}

\* __mode of the registry table's metatable (luaopen_rados): weak keys.
RegistryModeStrong == {}
RegistryModeWeakKV == {"k", "v"}
RegistryMode == {"k"}

----------------------------------------------------------------------------
\* Results, as the host sees them.

\* One backend call: the function, the userdata whose native handle was
\* passed, the ambient locator key (for rados_create, the user id that was
\* passed), and whether the handle was already released (or belongs to a
\* released cluster) when it was passed.
Call(fn, h, key, dangling) == [fn |-> fn, h |-> h, key |-> key, dangling |-> dangling]

\* luaL_argerror: the handler is left by a raised error before any effect.
Raised(op, obj) ==
  [op |-> op, obj |-> obj, res |-> "argerror", ret |-> 0, val |-> <<>>,
   calls |-> <<>>]

\* A variant that raises the failure as a Lua error.
lua_rados_pusherror_raise(op, obj, ret, calls) == Raised(op, obj)
\* lua_rados_pusherror: (nil, strerror(-ret), ret).
lua_rados_pusherror(op, obj, ret, calls) ==
  [op |-> op, obj |-> obj, res |-> "err", ret |-> ret, val |-> <<>>,
   calls |-> calls]

\* A normal return: the values pushed, val (a new userdata is named by its
\* number).
Returned(op, obj, val, calls) ==
  [op |-> op, obj |-> obj, res |-> "ok", ret |-> 0, val |-> val,
   calls |-> calls]

\* A call that passed a NULL handle to the backend, which dereferences it:
\* the process is killed inside the call.
Crashed(op, obj, calls) ==
  [op |-> op, obj |-> obj, res |-> "crash", ret |-> 0, val |-> <<>>,
   calls |-> calls]

\* lua_rados_pushresult: the value when ok, the nil-error protocol otherwise.
lua_rados_pushresult(op, obj, ok, ret, calls) ==
  IF ok THEN Returned(op, obj, <<ret>>, calls)
        ELSE lua_rados_pusherror(op, obj, ret, calls)

----------------------------------------------------------------------------
\* Handle checks.

\* A variant of the check that lets a shut down cluster through.
lua_rados_checkcluster_nocheck(c) == TRUE
\* Passes unless the cluster had shutdown.
lua_rados_checkcluster(c) == cl[c].state # "SHUTDOWN"

\* A variant of the check that does not ask for a connection.
lua_rados_checkcluster_loose(c) == lua_rados_checkcluster(c)
\* Passes only on a connected cluster.
lua_rados_checkcluster_conn(c) ==
  lua_rados_checkcluster(c) /\ cl[c].state = "CONNECTED"

\* A variant of the check that lets a closed ioctx through.
lua_rados_checkioctx_any(i) == TRUE
\* Passes only on an open ioctx.
lua_rados_checkioctx(i) == io[i].state = "OPEN"

\* Native releases of a cluster handle, by either path.
ClusterReleases(c) == bk[c].shutdowns + bk[c].frees

\* The native handle behind an ioctx is unusable once it was destroyed or
\* once the cluster it was created from was released.
IoDangling(i) ==
  \/ nat[i].destroys > 0
  \/ io[i].io # "PTR"
  \/ (io[i].owner # 0 /\ ClusterReleases(io[i].owner) > 0)

\* The mark of memory that nothing wrote and nothing read yet.
Unwritten == -1

\* Userdata and tokens that do not exist yet.
NoComp == [state |-> "NONE", completion |-> "NULL", size |-> 0, mtime |-> 0,
           buf |-> "NULL", meta |-> FALSE]
NoTok == [st |-> "none", releases |-> 0, key |-> "NULL", oid |-> "", off |-> 0,
          kind |-> "none", len |-> 0, ret |-> 0, ctx |-> 0]
NoBuf == [ptr |-> "NULL", size |-> 0, frees |-> 0]
NoBlock == [st |-> "none", frees |-> 0, junk |-> Unwritten]

----------------------------------------------------------------------------
Init ==
  /\ cl = [c \in Clusters |-> [state |-> "NONE", cluster |-> "NULL"]]
  /\ bk = [c \in Clusters |->
             [created |-> FALSE, connects |-> 0, shutdowns |-> 0, frees |-> 0]]
  /\ io = [i \in Ioctxs |-> [state |-> "NONE", io |-> "NULL", owner |-> 0]]
  /\ nat = [i \in Ioctxs |-> [destroys |-> 0, key |-> "NULL"]]
  /\ refs = [i \in Ioctxs |-> 0]
  /\ host = {}
  /\ mem = [o \in Objects |-> "none"]
  /\ last = Returned("luaopen_rados", 0, <<>>, <<>>)
  /\ comp = [k \in Comps |-> NoComp]
  /\ tok = [k \in Comps |-> NoTok]
  /\ bufs = [b \in Bufs |-> NoBuf]
  /\ active = 0
  /\ heap = [k \in Comps |-> NoBlock]

\* The userdata block lua_newuserdata hands out next.
FreeCluster == {c \in Clusters : cl[c].state = "NONE" /\ \A d \in 1..(c-1) : cl[d].state # "NONE"}
FreeIoctx == {i \in Ioctxs : io[i].state = "NONE" /\ \A j \in 1..(i-1) : io[j].state # "NONE"}

----------------------------------------------------------------------------
\* Cluster handlers.

\* The user id arguments of create: no argument, nil, a string, a number
\* and a table.
NoId == "<none>"
NilId == "<nil>"
NumberId == "<number 0>"
IdArgs == {NoId, NilId, "admin", NumberId, NoString}

\* luaL_optstring: the default for an absent or nil argument, the string
\* itself, a number converted to its string; anything else is not accepted.
IsStringArg(a) == a # NoString
luaL_optstring(a, def) ==
  IF a \in {NoId, NilId} THEN def
  ELSE IF a = NumberId THEN "0"
  ELSE a

\* rados.create([id]), for one id argument.
lua_rados_create_with(id) ==
  IF ~(id \in {NoId, NilId} \/ IsStringArg(id))
    THEN /\ last' = Raised("create", 0)
         /\ UNCHANGED <<cl, bk, io, nat, refs, host, mem>>
         /\ UNCHANGED aioVars
    ELSE
  \E c \in FreeCluster, ret \in BackendRets :
    LET calls == <<Call("rados_create", c, luaL_optstring(id, "NULL"), FALSE)>>
    IN
    /\ mem' = [mem EXCEPT ![CObj(c)] = "live"]
    /\ IF ret # 0
         THEN /\ cl' = [cl EXCEPT ![c] =
                          [state |-> "CONFIGURING", cluster |-> "UNINIT"]]
              /\ bk' = bk
              /\ host' = host
              /\ last' = lua_rados_pusherror("create", c, ret, calls)
         ELSE /\ cl' = [cl EXCEPT ![c] = [state |-> "CONFIGURING", cluster |-> "PTR"]]
              /\ bk' = [bk EXCEPT ![c].created = TRUE]
              /\ host' = host \cup {CObj(c)}
              /\ last' = Returned("create", c, <<c>>, calls)
    /\ UNCHANGED <<io, nat, refs>>
    /\ UNCHANGED aioVars

\* rados.create([id])
lua_rados_create == \E id \in IdArgs : lua_rados_create_with(id)

\* cluster:conf_read_file([path])
lua_rados_conf_read_file(c) ==
  /\ CObj(c) \in host
  /\ IF ~lua_rados_checkcluster(c)
       THEN last' = Raised("conf_read_file", c)
       ELSE \E ret \in BackendRets :
              last' = lua_rados_pushresult("conf_read_file", c, ret = 0, ret,
                        <<Call("rados_conf_read_file", c, "NULL", ClusterReleases(c) > 0)>>)
  /\ UNCHANGED <<cl, bk, io, nat, refs, host, mem>>
  /\ UNCHANGED aioVars

\* cluster:connect()
lua_rados_connect(c) ==
  /\ CObj(c) \in host
  /\ IF ~lua_rados_checkcluster(c) \/ cl[c].state = "CONNECTED"
       THEN /\ last' = Raised("connect", c)
            /\ UNCHANGED <<cl, bk>>
       ELSE \E ret \in BackendRets :
              /\ cl' = IF ret = 0 THEN [cl EXCEPT ![c].state = "CONNECTED"] ELSE cl
              /\ bk' = IF ret = 0 THEN [bk EXCEPT ![c].connects = @ + 1] ELSE bk
              /\ last' = lua_rados_pushresult("connect", c, ret = 0, ret,
                           <<Call("rados_connect", c, "NULL", ClusterReleases(c) > 0)>>)
  /\ UNCHANGED <<io, nat, refs, host, mem>>
  /\ UNCHANGED aioVars

\* cluster:is_connected(): the handle is checked for its type only; the
\* boolean pushed is whether the state is Connected.
lua_rados_is_connected(c) ==
  /\ CObj(c) \in host
  /\ last' = Returned("is_connected", c, <<cl[c].state = "CONNECTED">>, <<>>)
  /\ UNCHANGED <<cl, bk, io, nat, refs, host, mem>>
  /\ UNCHANGED aioVars

\* cluster:shutdown()
lua_rados_shutdown(c) ==
  /\ CObj(c) \in host
  /\ IF ~lua_rados_checkcluster_conn(c)
       THEN /\ last' = Raised("shutdown", c)
            /\ UNCHANGED <<cl, bk>>
       ELSE /\ cl' = [cl EXCEPT ![c] =
                        [state |-> "SHUTDOWN",
                         cluster |-> IF cl[c].state # "SHUTDOWN" THEN "NULL"
                                     ELSE cl[c].cluster]]
            /\ bk' = IF cl[c].state # "SHUTDOWN"
                       THEN [bk EXCEPT ![c].shutdowns = @ + 1] ELSE bk
            /\ last' = Returned("shutdown", c, <<>>,
                                IF cl[c].state # "SHUTDOWN"
                                  THEN <<Call("rados_shutdown", c, "NULL",
                                              ClusterReleases(c) > 0)>>
                                  ELSE <<>>)
  /\ UNCHANGED <<io, nat, refs, host, mem>>
  /\ UNCHANGED aioVars

\* cluster:open_ioctx(pool), for one pool argument.
lua_rados_open_ioctx_with(c, pool) ==
  /\ CObj(c) \in host
  /\   IF ~lua_rados_checkcluster_conn(c) \/ pool = NoString
         THEN /\ last' = Raised("open_ioctx", c)
              /\ UNCHANGED <<io, refs, host, mem>>
         ELSE \E i \in FreeIoctx :
                LET ret == IF pool \in ExistingPools THEN 0 ELSE -2
                    calls == <<Call("rados_ioctx_create", c, "NULL",
                                    ClusterReleases(c) > 0)>>
                IN /\ mem' = [mem EXCEPT ![IObj(i)] = "live"]
                   /\ IF ret # 0
                        THEN /\ io' = [io EXCEPT ![i] =
                                         [state |-> "OPEN", io |-> "UNINIT",
                                          owner |-> 0]]
                             /\ last' = lua_rados_pusherror("open_ioctx", c, ret, calls)
                             /\ UNCHANGED <<refs, host>>
                        ELSE /\ io' = [io EXCEPT ![i] =
                                         [state |-> "OPEN", io |-> "PTR", owner |-> c]]
                             /\ refs' = [refs EXCEPT ![i] = c]
                             /\ host' = host \cup {IObj(i)}
                             /\ last' = Returned("open_ioctx", c, <<i>>, calls)
  /\ UNCHANGED <<cl, bk, nat>>
  /\ UNCHANGED aioVars

\* cluster:open_ioctx(pool)
lua_rados_open_ioctx(c) == \E pool \in PoolArgs : lua_rados_open_ioctx_with(c, pool)

\* The service and daemon names the host passes to register: a string and
\* a value that is no string.
RegisterArgs == {"osd", NoString}

\* cluster:register(service, daemon): nothing is pushed on success.
lua_rados_service_register(c, service, daemon) ==
  /\ CObj(c) \in host
  /\ IF ~lua_rados_checkcluster_conn(c) \/ service = NoString \/ daemon = NoString
       THEN last' = Raised("register", c)
       ELSE \E ret \in BackendRets :
              LET calls == <<Call("rados_service_register", c, "NULL",
                                  ClusterReleases(c) > 0)>>
              IN last' = IF ret # 0
                           THEN lua_rados_pusherror("register", c, ret, calls)
                           ELSE Returned("register", c, <<>>, calls)
  /\ UNCHANGED <<cl, bk, io, nat, refs, host, mem>>
  /\ UNCHANGED aioVars

\* A variant of the metamethod without the allocator path.
lua_rados_cluster_gc_nofree(c) ==
  /\ cl' = [cl EXCEPT ![c].state = "SHUTDOWN"]
  /\ bk' = IF cl[c].state = "CONNECTED"
             THEN [bk EXCEPT ![c].shutdowns = @ + 1] ELSE bk

\* The __gc metamethod of a cluster: what it does to the userdata and to
\* the native handle.
lua_rados_cluster_gc(c) ==
  IF cl[c].state = "CONNECTED"
    THEN /\ cl' = [cl EXCEPT ![c].state = "SHUTDOWN"]
         /\ bk' = [bk EXCEPT ![c].shutdowns = @ + 1]
    ELSE \E p \in ReadPtr(cl[c].cluster) :
           /\ cl' = [cl EXCEPT ![c] = [state |-> "SHUTDOWN", cluster |-> "NULL"]]
           /\ bk' = IF p # "NULL" THEN [bk EXCEPT ![c].frees = @ + 1] ELSE bk

\* The release a run of lua_rados_cluster_gc makes: rados_shutdown on a
\* connected cluster, free on a pointer that is not NULL, nothing otherwise.
ClusterGcCalls(c) ==
  IF bk'[c].shutdowns > bk[c].shutdowns
    THEN <<Call("rados_shutdown", c, "NULL", ClusterReleases(c) > 0)>>
  ELSE IF bk'[c].frees > bk[c].frees
    THEN <<Call("free", c, "NULL", ClusterReleases(c) > 0)>>
  ELSE <<>>

\* cluster:__gc(), called by the host: the metatable is its own __index,
\* so the metamethod is an ordinary method of the handle.
HostClusterGc(c) ==
  /\ CObj(c) \in host
  /\ lua_rados_cluster_gc(c)
  /\ last' = Returned("cluster_gc", c, <<>>, ClusterGcCalls(c))
  /\ UNCHANGED <<io, nat, refs, host, mem>>
  /\ UNCHANGED aioVars

----------------------------------------------------------------------------
\* The storage backend: what is stored under a locator key and an object id.
\* "obj" was written once without a locator key and once, with other
\* content, under the key "k1".
Keys == {"NULL", "k1"}
OidArgs == {"obj", "nosuch", NoString}

Stored(key, oid) ==
  IF oid = "obj" /\ key = "NULL" THEN [bytes |-> <<10, 11>>, mtime |-> 7]
  ELSE IF oid = "obj" /\ key = "k1" THEN [bytes |-> <<20>>, mtime |-> 9]
  ELSE [bytes |-> <<>>, mtime |-> 0]

Exists(key, oid) == oid = "obj" /\ key \in Keys

\* rados_stat: 0 and (size, mtime), or -ENOENT.
rados_stat(key, oid) ==
  IF Exists(key, oid)
    THEN [ret |-> 0, val |-> <<Len(Stored(key, oid).bytes), Stored(key, oid).mtime>>]
    ELSE [ret |-> -2, val |-> <<>>]

\* The locator key a handler sets before its backend call, and the one it
\* leaves behind after it.
KeyDuring(i, loc) == loc
KeyAfterLeak(i, loc) == loc
KeyAfter(i, loc) == "NULL"

----------------------------------------------------------------------------
\* Ioctx handlers.

\* ioctx:close()
lua_rados_ioctx_close(i) ==
  /\ IObj(i) \in host
  /\ IF ~lua_rados_checkioctx(i)
       THEN /\ last' = Raised("close", i)
            /\ UNCHANGED <<io, nat>>
       ELSE /\ io' = [io EXCEPT ![i].state = "CLOSED"]
            /\ nat' = IF io[i].state = "OPEN"
                        THEN [nat EXCEPT ![i].destroys = @ + 1] ELSE nat
            /\ last' = Returned("close", i, <<>>,
                                IF io[i].state = "OPEN"
                                  THEN <<Call("rados_ioctx_destroy", i, nat[i].key,
                                              IoDangling(i))>>
                                  ELSE <<>>)
  /\ UNCHANGED <<cl, bk, refs, host, mem>>
  /\ UNCHANGED aioVars

\* ioctx:stat(loc, oid)
lua_rados_ioctx_stat(i, loc, oid) ==
  /\ IObj(i) \in host
  /\   IF ~lua_rados_checkioctx(i) \/ oid = NoString
         THEN /\ last' = Raised("stat", i)
              /\ UNCHANGED nat
         ELSE LET r == rados_stat(KeyDuring(i, loc), oid)
                  calls == <<Call("rados_stat", i, KeyDuring(i, loc), IoDangling(i))>>
              IN /\ nat' = [nat EXCEPT ![i].key = KeyAfter(i, loc)]
                 /\ last' = IF r.ret # 0
                              THEN lua_rados_pusherror("stat", i, r.ret, calls)
                              ELSE Returned("stat", i, r.val, calls)
  /\ UNCHANGED <<cl, bk, io, refs, host, mem>>
  /\ UNCHANGED aioVars

\* The lengths and offsets the I/O specification draws from: a negative
\* length, the zero length and the length of the longest object.
IoSizes == {-1, 0, 2}
IoOffs == {0}
\* Object names of the asynchronous calls: an object that exists, and an
\* argument that is not a string.
AioOids == {"obj", NoString}

Min(a, b) == IF a < b THEN a ELSE b
Zeros(n) == [x \in 1..n |-> 0]

\* malloc returns a block or NULL.
Malloc == {"PTR", "NULL"}

\* What a block that was never written holds (malloc and lua_newuserdata do
\* not clear it): the value of its bytes and of its integer fields.  The
\* value is fixed by the first read of the block.
Junk == {0, 170}

\* rados_read: the bytes of the object from off, at most len of them, and
\* their number; or -ENOENT.
rados_read(key, oid, len, off) ==
  IF Exists(key, oid)
    THEN LET b == Stored(key, oid).bytes
             got == SubSeq(b, off + 1, Min(Len(b), off + len))
         IN [ret |-> Len(got), bytes |-> got]
    ELSE [ret |-> -2, bytes |-> <<>>]

\* The block after the backend wrote the bytes it read at its start.
Filled(data, bytes) ==
  [x \in 1..Len(data) |-> IF x <= Len(bytes) THEN bytes[x] ELSE data[x]]

FreeBuf == {b \in Bufs : mem[BObj(b)] = "none" /\ \A d \in 1..(b-1) : mem[BObj(d)] # "none"}
FreeComp == {k \in Comps : mem[KObj(k)] = "none" /\ \A d \in 1..(k-1) : mem[KObj(d)] # "none"}

\* lua_rados_newbuffer: the size of the block it asks malloc for; no block
\* and no userdata for a negative size.
NewBufferSize(size) == IF size = 0 THEN 1 ELSE size

\* The widths of the two integer types a read length passes through, scaled
\* down: int (32 bits in the build) and size_t, lua_Integer (64 bits).
IntBits == 4
SizeBits == 8

\* The lengths a Lua caller can pass: every lua_Integer.
LuaIntegers == (-(2^(SizeBits - 1)))..(2^(SizeBits - 1) - 1)

\* size_t size = luaL_checkinteger(...): the value modulo 2^SizeBits.
ToSizeT(x) == x % (2^SizeBits)

\* The int parameter of lua_rados_newbuffer: the low IntBits bits of the
\* size_t, read as a signed value.
ToInt(u) ==
  LET m == u % (2^IntBits)
  IN IF m >= 2^(IntBits - 1) THEN m - 2^IntBits ELSE m

\* ioctx:read(loc, oid, length, offset)
lua_rados_ioctx_read(i, loc, oid, size, off) ==
  /\ IObj(i) \in host
  /\ LET len == ToSizeT(size)
         asked == ToInt(len)
     IN
       IF ~lua_rados_checkioctx(i) \/ oid = NoString
         THEN /\ last' = Raised("read", i)
              /\ UNCHANGED <<nat, bufs, mem>>
         ELSE IF asked < 0
           THEN /\ last' = lua_rados_pusherror("read", i, -ENOMEM, <<>>)
                /\ UNCHANGED <<nat, bufs, mem>>
           ELSE \E b \in FreeBuf, m \in Malloc :
                  LET n == NewBufferSize(asked)
                      r == rados_read(KeyDuring(i, loc), oid, len, off)
                      calls == <<Call("rados_read", i, KeyDuring(i, loc), IoDangling(i))>>
                      data == IF r.ret < 0 THEN Zeros(n) ELSE Filled(Zeros(n), r.bytes)
                  IN /\ mem' = [mem EXCEPT ![BObj(b)] = "live"]
                     /\ IF m = "NULL"
                          THEN /\ bufs' = [bufs EXCEPT ![b] =
                                             [ptr |-> "NULL", size |-> 0, frees |-> 0]]
                               /\ last' = lua_rados_pusherror("read", i, -ENOMEM, <<>>)
                               /\ UNCHANGED nat
                          ELSE /\ bufs' = [bufs EXCEPT ![b] =
                                             [ptr |-> "PTR", size |-> n, frees |-> 0]]
                               /\ nat' = [nat EXCEPT ![i].key = KeyAfter(i, loc)]
                               /\ IF r.ret < 0
                                    THEN last' = lua_rados_pusherror("read", i, r.ret, calls)
                                    ELSE IF r.ret > n
                                      \* The backend wrote past the end of the block:
                                      \* the process dies, or the call returns what
                                      \* was written.
                                      THEN last' \in {Crashed("read", i, calls),
                                                      Returned("read", i, r.bytes, calls)}
                                      ELSE last' = Returned("read", i,
                                                            SubSeq(data, 1, r.ret), calls)
  /\ UNCHANGED <<cl, bk, io, refs, host, comp, tok, active, heap>>

\* A variant that frees whatever the pointer is.
lua_rados_buffer_gc_unchecked(b) ==
  bufs' = [bufs EXCEPT ![b].ptr = "NULL", ![b].frees = @ + 1]
\* __gc of a Rados.Buffer: the block is freed unless the pointer is NULL.
lua_rados_buffer_gc(b) ==
  bufs' = IF bufs[b].ptr # "NULL"
            THEN [bufs EXCEPT ![b].ptr = "NULL", ![b].frees = @ + 1]
            ELSE bufs

\* ioctx:aio_stat(loc, oid)
lua_rados_ioctx_aio_stat(i, loc, oid) ==
  /\ IObj(i) \in host
  /\   IF ~lua_rados_checkioctx(i) \/ oid = NoString
         THEN /\ last' = Raised("aio_stat", i)
              /\ UNCHANGED <<nat, host, mem, comp, tok, active>>
         ELSE \E k \in FreeComp, cret \in BackendRets, sret \in BackendRets :
                LET calls == <<Call("rados_aio_create_completion", k, "NULL", FALSE)>>
                    sub == Call("rados_aio_stat", i, KeyDuring(i, loc), IoDangling(i))
                    c0 == [NoComp EXCEPT !.state = "STAT", !.meta = TRUE, !.size = Unwritten,
                                         !.mtime = Unwritten, !.buf = "UNINIT"]
                IN /\ mem' = [mem EXCEPT ![KObj(k)] = "live"]
                   /\ IF cret # 0
                        THEN /\ comp' = [comp EXCEPT ![k] = c0]
                             /\ last' = lua_rados_pusherror("aio_stat", i, cret, calls)
                             /\ UNCHANGED <<nat, host, tok, active>>
                        ELSE /\ comp' = [comp EXCEPT ![k] =
                                           [c0 EXCEPT !.completion = "PTR"]]
                             /\ active' = active + 1
                             /\ nat' = [nat EXCEPT ![i].key = KeyAfter(i, loc)]
                             /\ tok' = [tok EXCEPT ![k] =
                                          [st |-> IF sret = 0 THEN "pending" ELSE "idle",
                                           releases |-> 0, key |-> KeyDuring(i, loc),
                                           oid |-> oid, off |-> 0, kind |-> "stat",
                                           len |-> 0, ret |-> 0, ctx |-> i]]
                             /\ host' = IF sret = 0 THEN host \cup {KObj(k)} ELSE host
                             /\ last' = IF sret # 0
                                          THEN lua_rados_pusherror("aio_stat", i, sret,
                                                                   Append(calls, sub))
                                          ELSE Returned("aio_stat", i, <<k>>,
                                                        Append(calls, sub))
  /\ UNCHANGED <<cl, bk, io, refs, bufs, heap>>

\* ioctx:aio_read(loc, oid, length, offset)
lua_rados_ioctx_aio_read(i, loc, oid, size, off) ==
  /\ IObj(i) \in host
  /\   IF ~lua_rados_checkioctx(i) \/ oid = NoString
         THEN /\ last' = Raised("aio_read", i)
              /\ UNCHANGED <<nat, host, mem, comp, tok, active, heap>>
         ELSE \E k \in FreeComp, m \in Malloc, cret \in BackendRets,
                 sret \in BackendRets :
                LET calls == <<Call("rados_aio_create_completion", k, "NULL", FALSE)>>
                    sub == Call("rados_aio_read", i, KeyDuring(i, loc), IoDangling(i))
                    got == IF size < 0 THEN "NULL" ELSE m
                    c0 == [NoComp EXCEPT !.state = "READ", !.size = size, !.buf = got]
                IN /\ mem' = [mem EXCEPT ![KObj(k)] = "live"]
                   /\ heap' = IF got = "NULL" THEN heap
                              ELSE [heap EXCEPT ![k] =
                                      [st |-> "live", frees |-> 0, junk |-> Unwritten]]
                   /\ IF got = "NULL"
                        THEN /\ comp' = [comp EXCEPT ![k] = c0]
                             /\ last' = lua_rados_pusherror("aio_read", i, -ENOMEM, <<>>)
                             /\ UNCHANGED <<nat, host, tok, active>>
                        ELSE IF cret # 0
                        THEN /\ comp' = [comp EXCEPT ![k] = [c0 EXCEPT !.meta = TRUE]]
                             /\ last' = lua_rados_pusherror("aio_read", i, cret, calls)
                             /\ UNCHANGED <<nat, host, tok, active>>
                        ELSE /\ comp' = [comp EXCEPT ![k] =
                                           [c0 EXCEPT !.meta = TRUE, !.completion = "PTR"]]
                             /\ active' = active + 1
                             /\ nat' = [nat EXCEPT ![i].key = KeyAfter(i, loc)]
                             /\ tok' = [tok EXCEPT ![k] =
                                          [st |-> IF sret = 0 THEN "pending" ELSE "idle",
                                           releases |-> 0, key |-> KeyDuring(i, loc),
                                           oid |-> oid, off |-> off, kind |-> "read",
                                           len |-> size, ret |-> 0, ctx |-> i]]
                             /\ host' = IF sret = 0 THEN host \cup {KObj(k)} ELSE host
                             /\ last' = IF sret # 0
                                          THEN lua_rados_pusherror("aio_read", i, sret,
                                                                   Append(calls, sub))
                                          ELSE Returned("aio_read", i, <<k>>,
                                                        Append(calls, sub))
  /\ UNCHANGED <<cl, bk, io, refs, bufs>>

----------------------------------------------------------------------------
\* Completions: the backend's side of a token, and the handlers.

\* A backend that never reports an operation complete.
rados_aio_is_complete_never(k) == 0
\* rados_aio_is_complete: 1 once the operation behind the token completed.
rados_aio_is_complete(k) == IF tok[k].st = "complete" THEN 1 ELSE 0

\* A backend whose tokens die with the context they were submitted on.
rados_aio_get_return_value_bound(k) ==
  IF nat[tok[k].ctx].destroys > 0 THEN -EINVAL ELSE tok[k].ret
\* rados_aio_get_return_value: the status of the operation once it
\* completed; before that, the value the token was created with, 0.
rados_aio_get_return_value(k) == tok[k].ret

\* The operation behind token k completes: the token gets its status, a
\* stat that succeeded writes comp->size and comp->mtime, a read writes the
\* bytes it got at the start of comp->buf.
Complete(k) ==
  LET t == tok[k]
      st == rados_stat(t.key, t.oid)
      rd == rados_read(t.key, t.oid, t.len, t.off)
  IN /\ tok' = [tok EXCEPT ![k].st = "complete",
                           ![k].ret = IF t.kind = "stat" THEN st.ret ELSE rd.ret]
     /\ comp' = IF t.kind = "stat" /\ st.ret = 0
                  THEN [comp EXCEPT ![k].size = st.val[1], ![k].mtime = st.val[2]]
                  ELSE comp

\* The backend thread finishes a pending operation.
BackendComplete(k) ==
  /\ tok[k].st = "pending"
  /\ Complete(k)
  /\ UNCHANGED <<cl, bk, io, nat, refs, host, mem, last, bufs, active, heap>>

\* A variant in which the backend never writes the block of a read.
CompBufUntouched(k, j) == [x \in 1..comp[k].size |-> j]
\* The comp->size bytes at comp->buf: what a completed read wrote, then
\* what the block held when malloc returned it, j.
CompBuf(k, j) ==
  LET t == tok[k]
      bytes == IF t.st = "complete" /\ t.ret > 0
                 THEN rados_read(t.key, t.oid, t.len, t.off).bytes ELSE <<>>
  IN [x \in 1..comp[k].size |-> IF x <= Len(bytes) THEN bytes[x] ELSE j]

\* The values get_return_value pushes when the status is not negative.
Harvest(k, j) ==
  IF comp[k].state = "STAT"
    THEN <<IF comp[k].size = Unwritten THEN j ELSE comp[k].size,
           IF comp[k].mtime = Unwritten THEN j ELSE comp[k].mtime>>
    ELSE <<CompBuf(k, j)>>

\* A memory whose unwritten bytes read differently every time.
JunkOfFresh(k) == Junk
\* What the memory of completion k holds where nothing wrote: the value a
\* read found there before, or any value.
JunkOf(k) == IF heap[k].junk = Unwritten THEN Junk ELSE {heap[k].junk}

\* completion:is_complete()
lua_rados_completion_complete(k) ==
  /\ KObj(k) \in host
  /\ last' = IF comp[k].completion = "NULL"
               THEN Crashed("is_complete", k,
                            <<Call("rados_aio_is_complete", k, "NULL", TRUE)>>)
               ELSE Returned("is_complete", k, <<rados_aio_is_complete(k)>>,
                             <<Call("rados_aio_is_complete", k, "NULL", FALSE)>>)
  /\ UNCHANGED <<cl, bk, io, nat, refs, host, mem>>
  /\ UNCHANGED aioVars

\* The host inside a call that did not return yet.
Blocked(op, obj, calls) ==
  [op |-> op, obj |-> obj, res |-> "blocked", ret |-> 0, val |-> <<>>,
   calls |-> calls]

\* completion:wait_for_complete(), in its two steps: the host enters
\* rados_aio_wait_for_complete, and the call returns once the backend has
\* completed the operation.  The host makes no other call in between.
WaitCall(k) ==
  /\ KObj(k) \in host
  /\ last.res # "blocked"
  /\ last' = IF comp[k].completion = "NULL"
               THEN Crashed("wait_for_complete", k,
                            <<Call("rados_aio_wait_for_complete", k, "NULL", TRUE)>>)
               ELSE Blocked("wait_for_complete", k,
                            <<Call("rados_aio_wait_for_complete", k, "NULL", FALSE)>>)
  /\ UNCHANGED <<cl, bk, io, nat, refs, host, mem>>
  /\ UNCHANGED aioVars

WaitReturn(k) ==
  /\ last.res = "blocked"
  /\ last.obj = k
  /\ rados_aio_is_complete(k) = 1
  /\ last' = Returned("wait_for_complete", k, <<>>, last.calls)
  /\ UNCHANGED <<cl, bk, io, nat, refs, host, mem>>
  /\ UNCHANGED aioVars

\* completion:wait_for_complete(): the entry of the call or its return.
lua_rados_completion_wait_for_complete(k) == WaitCall(k) \/ WaitReturn(k)

\* The host is not inside a call: it can make the next one, and the
\* collector, which runs on the host's thread, can run.
HostFree == last.res # "blocked"

\* completion:get_return_value()
lua_rados_completion_get_return_value(k) ==
  /\ KObj(k) \in host
  /\ LET ret == rados_aio_get_return_value(k)
         calls == <<Call("rados_aio_get_return_value", k, "NULL", FALSE)>>
     IN IF comp[k].completion = "NULL"
          THEN /\ last' = Crashed("get_return_value", k,
                                  <<Call("rados_aio_get_return_value", k, "NULL",
                                         TRUE)>>)
               /\ heap' = heap
        ELSE IF ret < 0
          THEN /\ last' = lua_rados_pusherror("get_return_value", k, ret, calls)
               /\ heap' = heap
        ELSE IF comp[k].state \in {"STAT", "READ"}
          THEN \E j \in JunkOf(k) :
                 /\ last' = Returned("get_return_value", k, Harvest(k, j), calls)
                 /\ heap' = IF Harvest(k, j) # Harvest(k, Unwritten)
                              THEN [heap EXCEPT ![k].junk = j] ELSE heap
        ELSE /\ last' = lua_rados_pusherror("get_return_value", k, -EINVAL, calls)
             /\ heap' = heap
  /\ UNCHANGED <<cl, bk, io, nat, refs, host, mem, comp, tok, bufs, active>>

\* The releases a run of lua_rados_completion_gc makes, in their order.
CompletionGcCalls(k) ==
  (IF comp[k].completion # "NULL"
     THEN <<Call("rados_aio_release", k, "NULL", FALSE)>> ELSE <<>>)
  \o (IF comp[k].state = "READ" /\ comp[k].buf # "NULL"
        THEN <<Call("free", k, "NULL", heap[k].st # "live")>> ELSE <<>>)

\* A variant of the metamethod that does not clear the pointers it
\* released.
lua_rados_completion_gc_keep(k) ==
  LET hasTok == comp[k].completion # "NULL"
      hasBuf == comp[k].state = "READ" /\ comp[k].buf # "NULL"
  IN /\ comp' = comp
     /\ tok' = IF hasTok THEN [tok EXCEPT ![k].releases = @ + 1] ELSE tok
     /\ active' = IF hasTok THEN active - 1 ELSE active
     /\ heap' = IF hasBuf
                  THEN [heap EXCEPT ![k].st = "freed", ![k].frees = @ + 1]
                  ELSE heap

\* The __gc metamethod of a completion: what it does to the userdata, the
\* token, the counter and the block.
lua_rados_completion_gc(k) ==
  LET hasTok == comp[k].completion # "NULL"
      hasBuf == comp[k].state = "READ" /\ comp[k].buf # "NULL"
  IN /\ comp' = [comp EXCEPT ![k].completion = "NULL",
                             ![k].buf = IF hasBuf THEN "NULL" ELSE @]
     /\ tok' = IF hasTok THEN [tok EXCEPT ![k].releases = @ + 1] ELSE tok
     /\ active' = IF hasTok THEN active - 1 ELSE active
     /\ heap' = IF hasBuf
                  THEN [heap EXCEPT ![k].st = "freed", ![k].frees = @ + 1]
                  ELSE heap

\* completion:__gc(), called by the host: the metatable is its own __index.
HostCompletionGc(k) ==
  /\ KObj(k) \in host
  /\ lua_rados_completion_gc(k)
  /\ last' = Returned("completion_gc", k, <<>>, CompletionGcCalls(k))
  /\ UNCHANGED <<cl, bk, io, nat, refs, host, mem, bufs>>

----------------------------------------------------------------------------
\* The host drops a reference; the collector.

DropRef(o) ==
  /\ o \in host
  /\ host' = host \ {o}
  /\ UNCHANGED <<cl, bk, io, nat, refs, mem, last>>
  /\ UNCHANGED aioVars

\* Only userdata whose metatable has __gc are finalized: clusterlib_m,
\* completionlib_m and the buffer metatable have it, ioctxlib_m has not.
HasGc(o) ==
  \/ o[1] \in {"cluster", "buffer"}
  \/ (o[1] = "completion" /\ comp[o[2]].meta)

\* What a mark phase reaches: the host's references, and through the
\* registry table every key and value that is not weak.  Userdata refer to
\* no other object.
Marked ==
  host
  \cup (IF "v" \in RegistryMode THEN {}
        ELSE {CObj(refs[i]) : i \in {j \in Ioctxs : refs[j] # 0}})
  \cup (IF "k" \in RegistryMode THEN {}
        ELSE {IObj(i) : i \in {j \in Ioctxs : refs[j] # 0}})

\* A collection: unmarked userdata with __gc are queued for finalization,
\* the others are freed, and the registry loses the entries whose weak key
\* (or weak value) was not marked.
GcCycle ==
  LET m == Marked
      dead == {o \in Objects : mem[o] = "live" /\ o \notin m}
  IN /\ mem' = [o \in Objects |->
                  IF o \in dead THEN (IF HasGc(o) THEN "tobefnz" ELSE "freed")
                  ELSE mem[o]]
     /\ refs' = [i \in Ioctxs |->
                   IF /\ refs[i] # 0
                      /\ \/ "k" \in RegistryMode /\ IObj(i) \notin m
                         \/ "v" \in RegistryMode /\ CObj(refs[i]) \notin m
                     THEN 0 ELSE refs[i]]
     /\ (mem' # mem \/ refs' # refs)
     /\ UNCHANGED <<cl, bk, io, nat, host, last>>
     /\ UNCHANGED aioVars

\* The collector runs __gc of a cluster it found unreachable.
CollectorFinalizeCluster(c) ==
  /\ mem[CObj(c)] = "tobefnz"
  /\ lua_rados_cluster_gc(c)
  /\ mem' = [mem EXCEPT ![CObj(c)] = "finalized"]
  /\ UNCHANGED <<io, nat, refs, host, last>>
  /\ UNCHANGED aioVars

\* The collector runs __gc of a completion it found unreachable.
CollectorFinalizeCompletion(k) ==
  /\ mem[KObj(k)] = "tobefnz"
  /\ lua_rados_completion_gc(k)
  /\ mem' = [mem EXCEPT ![KObj(k)] = "finalized"]
  /\ UNCHANGED <<cl, bk, io, nat, refs, host, last, bufs>>

\* The collector runs __gc of a buffer it found unreachable.
CollectorFinalizeBuffer(b) ==
  /\ mem[BObj(b)] = "tobefnz"
  /\ lua_rados_buffer_gc(b)
  /\ mem' = [mem EXCEPT ![BObj(b)] = "finalized"]
  /\ UNCHANGED <<cl, bk, io, nat, refs, host, last, comp, tok, active, heap>>

----------------------------------------------------------------------------
\* The handlers the host calls on the handles it holds.
Next ==
  \/ lua_rados_create
  \/ \E c \in Clusters : lua_rados_conf_read_file(c)
  \/ \E c \in Clusters : lua_rados_connect(c)
  \/ \E c \in Clusters : lua_rados_shutdown(c)
  \/ \E c \in Clusters : lua_rados_open_ioctx(c)
  \/ \E c \in Clusters : HostClusterGc(c)
  \/ \E i \in Ioctxs : lua_rados_ioctx_close(i)
  \/ \E i \in Ioctxs, loc \in Keys, oid \in OidArgs :
       lua_rados_ioctx_stat(i, loc, oid)

Spec == Init /\ [][Next]_vars

\* The handle lifecycle under the collector: the host creates, connects,
\* opens, shuts down and drops references, the collector collects and
\* finalizes.
NextGc ==
  \/ lua_rados_create
  \/ \E c \in Clusters : lua_rados_connect(c)
  \/ \E c \in Clusters : lua_rados_shutdown(c)
  \/ \E c \in Clusters : lua_rados_open_ioctx(c)
  \/ \E o \in Objects : DropRef(o)
  \/ GcCycle
  \/ \E c \in Clusters : CollectorFinalizeCluster(c)

SpecGc == Init /\ [][NextGc]_vars

\* The I/O surface of one opened context: the state after create, connect
\* and open_ioctx("rbd") have succeeded.
InitIo ==
  /\ cl = [c \in Clusters |->
             IF c = 1 THEN [state |-> "CONNECTED", cluster |-> "PTR"]
             ELSE [state |-> "NONE", cluster |-> "NULL"]]
  /\ bk = [c \in Clusters |->
             IF c = 1 THEN [created |-> TRUE, connects |-> 1, shutdowns |-> 0,
                            frees |-> 0]
             ELSE [created |-> FALSE, connects |-> 0, shutdowns |-> 0, frees |-> 0]]
  /\ io = [i \in Ioctxs |->
             IF i = 1 THEN [state |-> "OPEN", io |-> "PTR", owner |-> 1]
             ELSE [state |-> "NONE", io |-> "NULL", owner |-> 0]]
  /\ nat = [i \in Ioctxs |-> [destroys |-> 0, key |-> "NULL"]]
  /\ refs = [i \in Ioctxs |-> IF i = 1 THEN 1 ELSE 0]
  /\ host = {CObj(1), IObj(1)}
  /\ mem = [o \in Objects |-> IF o \in {CObj(1), IObj(1)} THEN "live" ELSE "none"]
  /\ last = Returned("open_ioctx", 1, <<1>>,
                     <<Call("rados_ioctx_create", 1, "NULL", FALSE)>>)
  /\ comp = [k \in Comps |-> NoComp]
  /\ tok = [k \in Comps |-> NoTok]
  /\ bufs = [b \in Bufs |-> NoBuf]
  /\ active = 0
  /\ heap = [k \in Comps |-> NoBlock]

NextIo ==
  \/ \E i \in Ioctxs : lua_rados_ioctx_close(i)
  \/ \E i \in Ioctxs, loc \in Keys, oid \in OidArgs :
       lua_rados_ioctx_stat(i, loc, oid)
  \/ \E i \in Ioctxs, loc \in Keys, oid \in OidArgs, size \in IoSizes,
        off \in IoOffs :
       lua_rados_ioctx_read(i, loc, oid, size, off)
  \/ \E i \in Ioctxs, loc \in Keys, oid \in AioOids :
       lua_rados_ioctx_aio_stat(i, loc, oid)
  \/ \E i \in Ioctxs, loc \in Keys, oid \in AioOids, size \in IoSizes,
        off \in IoOffs :
       lua_rados_ioctx_aio_read(i, loc, oid, size, off)

SpecIo == InitIo /\ [][NextIo]_vars

\* The synchronous read of one opened context, with every length from -1
\* to one past the range of the int the allocator takes (the lengths around
\* the sizes of the stored objects, the first length that is negative as an
\* int and the first that wraps to 0), the offsets 0 and 1, and the
\* collector that finalizes the buffers.
ReadSizes == (-1)..(2^IntBits + 1)
ReadOffs == {0, 1}

NextRead ==
  \/ \E i \in Ioctxs : lua_rados_ioctx_close(i)
  \/ \E i \in Ioctxs, loc \in Keys, oid \in OidArgs, size \in ReadSizes,
        off \in ReadOffs :
       lua_rados_ioctx_read(i, loc, oid, size, off)
  \/ GcCycle
  \/ \E b \in Bufs : CollectorFinalizeBuffer(b)

SpecRead == InitIo /\ [][NextRead]_vars

\* The asynchronous surface of one opened context: submissions, the
\* backend thread and the completion handlers.
AioOidArgs == {"obj", "nosuch", NoString}

NextAio ==
  \/ /\ HostFree
     /\ \/ \E i \in Ioctxs : lua_rados_ioctx_close(i)
        \/ \E i \in Ioctxs, loc \in Keys, oid \in AioOidArgs :
             lua_rados_ioctx_aio_stat(i, loc, oid)
        \/ \E i \in Ioctxs, loc \in Keys, oid \in AioOidArgs, size \in IoSizes,
              off \in IoOffs :
             lua_rados_ioctx_aio_read(i, loc, oid, size, off)
        \/ \E k \in Comps : lua_rados_completion_complete(k)
        \/ \E k \in Comps : lua_rados_completion_get_return_value(k)
  \/ \E k \in Comps : lua_rados_completion_wait_for_complete(k)
  \/ \E k \in Comps : BackendComplete(k)

SpecAio == InitIo /\ [][NextAio]_vars

\* The life of a completion: submissions, the backend thread, the host
\* that drops the completion or calls its __gc, and the collector that
\* finalizes what the host dropped.
NextAioGc ==
  \/ \E i \in Ioctxs, loc \in Keys, oid \in AioOids :
       lua_rados_ioctx_aio_stat(i, loc, oid)
  \/ \E i \in Ioctxs, loc \in Keys, oid \in AioOids, size \in IoSizes,
        off \in IoOffs :
       lua_rados_ioctx_aio_read(i, loc, oid, size, off)
  \/ \E k \in Comps : BackendComplete(k)
  \/ \E k \in Comps : HostCompletionGc(k)
  \/ \E k \in Comps : DropRef(KObj(k))
  \/ GcCycle
  \/ \E k \in Comps : CollectorFinalizeCompletion(k)

SpecAioGc == InitIo /\ [][NextAioGc]_vars

\* The calls that lead to a registry entry, and a collector that does
\* collect and does finalize what it queued.
NextGcLive ==
  \/ lua_rados_create
  \/ \E c \in Clusters : lua_rados_connect(c)
  \/ \E c \in Clusters : lua_rados_open_ioctx(c)
  \/ \E o \in Objects : DropRef(o)
  \/ GcCycle
  \/ \E c \in Clusters : CollectorFinalizeCluster(c)

SpecGcFair ==
  /\ Init
  /\ [][NextGcLive]_vars
  /\ WF_vars(GcCycle)
  /\ \A c \in Clusters : WF_vars(CollectorFinalizeCluster(c))

\* The two ways to read an object: the synchronous read and the submitted
\* read with its completion, with every length up to the longest object.
BothSizes == {1, 2}
BothOids == {"obj", "nosuch"}

NextBoth ==
  \/ /\ HostFree
     /\ \/ \E i \in Ioctxs, loc \in Keys, oid \in BothOids, size \in BothSizes :
             lua_rados_ioctx_read(i, loc, oid, size, 0)
        \/ \E i \in Ioctxs, loc \in Keys, oid \in BothOids, size \in BothSizes :
             lua_rados_ioctx_aio_read(i, loc, oid, size, 0)
        \/ \E k \in Comps : lua_rados_completion_get_return_value(k)
  \/ \E k \in Comps : lua_rados_completion_wait_for_complete(k)
  \/ \E k \in Comps : BackendComplete(k)

SpecBoth == InitIo /\ [][NextBoth]_vars

\* The whole life of a completion on one opened context: submissions, the
\* backend thread, the completion handlers, the host that drops the
\* completion or calls its __gc, and the collector.
CountSizes == {-1, 2}

NextCount ==
  \/ /\ HostFree
     /\ \/ \E i \in Ioctxs, oid \in AioOids :
             lua_rados_ioctx_aio_stat(i, "NULL", oid)
        \/ \E i \in Ioctxs, oid \in AioOids, size \in CountSizes :
             lua_rados_ioctx_aio_read(i, "NULL", oid, size, 0)
        \/ \E k \in Comps : lua_rados_completion_complete(k)
        \/ \E k \in Comps : lua_rados_completion_get_return_value(k)
        \/ \E k \in Comps : HostCompletionGc(k)
        \/ \E k \in Comps : DropRef(KObj(k))
        \/ GcCycle
        \/ \E k \in Comps : CollectorFinalizeCompletion(k)
  \/ \E k \in Comps : lua_rados_completion_wait_for_complete(k)
  \/ \E k \in Comps : BackendComplete(k)

SpecCount == InitIo /\ [][NextCount]_vars

\* Allocation under the collector: the two reads of one opened context,
\* whose buffers malloc may refuse, the host that drops what it got, and
\* the collector that finalizes buffers and completions.
AllocSizes == {-1, 2}

NextAlloc ==
  \/ \E i \in Ioctxs, loc \in Keys, oid \in AioOids, size \in AllocSizes :
       lua_rados_ioctx_read(i, loc, oid, size, 0)
  \/ \E i \in Ioctxs, loc \in Keys, oid \in AioOids, size \in AllocSizes :
       lua_rados_ioctx_aio_read(i, loc, oid, size, 0)
  \/ \E k \in Comps : DropRef(KObj(k))
  \/ GcCycle
  \/ \E b \in Bufs : CollectorFinalizeBuffer(b)
  \/ \E k \in Comps : CollectorFinalizeCompletion(k)

SpecAlloc == InitIo /\ [][NextAlloc]_vars

\* Waiting for a completion: the host submits, polls, waits and takes
\* results, one call at a time; the backend thread completes every pending
\* operation, and a wait returns once it can.
NextWait ==
  \/ /\ HostFree
     /\ \/ \E i \in Ioctxs, loc \in Keys, oid \in AioOids :
             lua_rados_ioctx_aio_stat(i, loc, oid)
        \/ \E i \in Ioctxs, loc \in Keys, oid \in AioOids, size \in IoSizes :
             lua_rados_ioctx_aio_read(i, loc, oid, size, 0)
        \/ \E k \in Comps : lua_rados_completion_complete(k)
        \/ \E k \in Comps : lua_rados_completion_get_return_value(k)
  \/ \E k \in Comps : WaitCall(k)
  \/ \E k \in Comps : WaitReturn(k)
  \/ \E k \in Comps : BackendComplete(k)

SpecWait ==
  /\ InitIo
  /\ [][NextWait]_vars
  /\ \A k \in Comps : WF_vars(BackendComplete(k))
  /\ \A k \in Comps : WF_vars(WaitReturn(k))

\* Every handler that can reject its call, on the handles of one connected
\* cluster and one opened context: well-typed and wrong-typed arguments,
\* handles in the right and in the wrong state.
FrameOids == {"obj", NoString}
\* open_ioctx is called with a pool the backend does not have and with a
\* table: the context of InitIo is the one that is used.
FramePools == {"asdlfk", NoString}
FrameSizes == {2}

NextFrame ==
  \/ lua_rados_create_with(NoString)
  \/ \E c \in Clusters : lua_rados_conf_read_file(c)
  \/ \E c \in Clusters : lua_rados_connect(c)
  \/ \E c \in Clusters : lua_rados_shutdown(c)
  \/ \E c \in Clusters, pool \in FramePools : lua_rados_open_ioctx_with(c, pool)
  \/ \E i \in Ioctxs : lua_rados_ioctx_close(i)
  \/ \E i \in Ioctxs, oid \in FrameOids : lua_rados_ioctx_stat(i, "k1", oid)
  \/ \E i \in Ioctxs, oid \in FrameOids, size \in FrameSizes :
       lua_rados_ioctx_read(i, "k1", oid, size, 0)
  \/ \E i \in Ioctxs, oid \in FrameOids : lua_rados_ioctx_aio_stat(i, "k1", oid)
  \/ \E i \in Ioctxs, oid \in FrameOids, size \in FrameSizes :
       lua_rados_ioctx_aio_read(i, "k1", oid, size, 0)

SpecFrame == InitIo /\ [][NextFrame]_vars

\* Every method of the cluster and ioctx metatables, on handles in every
\* lifecycle state.  The host starts with a cluster it created and did not
\* connect, or with a connected cluster and a context opened on it; it
\* configures, connects, registers, opens pools that do not exist,
\* shuts down, finalizes by hand, closes, and reads and stats both ways
\* through contexts that are open or closed.
InitConfiguring ==
  /\ cl = [c \in Clusters |->
             IF c = 1 THEN [state |-> "CONFIGURING", cluster |-> "PTR"]
             ELSE [state |-> "NONE", cluster |-> "NULL"]]
  /\ bk = [c \in Clusters |->
             [created |-> (c = 1), connects |-> 0, shutdowns |-> 0, frees |-> 0]]
  /\ io = [i \in Ioctxs |-> [state |-> "NONE", io |-> "NULL", owner |-> 0]]
  /\ nat = [i \in Ioctxs |-> [destroys |-> 0, key |-> "NULL"]]
  /\ refs = [i \in Ioctxs |-> 0]
  /\ host = {CObj(1)}
  /\ mem = [o \in Objects |-> IF o = CObj(1) THEN "live" ELSE "none"]
  /\ last = Returned("create", 1, <<1>>,
                     <<Call("rados_create", 1, "NULL", FALSE)>>)
  /\ comp = [k \in Comps |-> NoComp]
  /\ tok = [k \in Comps |-> NoTok]
  /\ bufs = [b \in Bufs |-> NoBuf]
  /\ active = 0
  /\ heap = [k \in Comps |-> NoBlock]

InitLife == InitConfiguring \/ InitIo

LifePools == {"asdlfk", NoString}
LifeOids == {"obj", NoString}
LifeSizes == {2}

NextLife ==
  \/ \E c \in Clusters : lua_rados_conf_read_file(c)
  \/ \E c \in Clusters : lua_rados_connect(c)
  \/ \E c \in Clusters : lua_rados_is_connected(c)
  \/ \E c \in Clusters : lua_rados_shutdown(c)
  \/ \E c \in Clusters, pool \in LifePools : lua_rados_open_ioctx_with(c, pool)
  \/ \E c \in Clusters, service \in RegisterArgs, daemon \in RegisterArgs :
       lua_rados_service_register(c, service, daemon)
  \/ \E c \in Clusters : HostClusterGc(c)
  \/ \E i \in Ioctxs : lua_rados_ioctx_close(i)
  \/ \E i \in Ioctxs, oid \in LifeOids :
       lua_rados_ioctx_stat(i, "NULL", oid)
  \/ \E i \in Ioctxs, oid \in LifeOids, size \in LifeSizes :
       lua_rados_ioctx_read(i, "NULL", oid, size, 0)
  \/ \E i \in Ioctxs, oid \in LifeOids :
       lua_rados_ioctx_aio_stat(i, "NULL", oid)
  \/ \E i \in Ioctxs, oid \in LifeOids, size \in LifeSizes :
       lua_rados_ioctx_aio_read(i, "NULL", oid, size, 0)

SpecLife == InitLife /\ [][NextLife]_vars

\* The synchronous read with every length a caller can pass, and the
\* collector that finalizes the buffers.
WidthOids == {"obj", "nosuch"}

NextWidth ==
  \/ \E i \in Ioctxs, loc \in Keys, oid \in WidthOids, size \in LuaIntegers,
        off \in ReadOffs :
       lua_rados_ioctx_read(i, loc, oid, size, off)
  \/ GcCycle
  \/ \E b \in Bufs : CollectorFinalizeBuffer(b)

SpecWidth == InitIo /\ [][NextWidth]_vars

----------------------------------------------------------------------------
\* Properties.

\* A step that allocated the userdata o.
Allocated(o) == mem[o] = "none" /\ mem'[o] = "live"

\* The backend functions that take a native ioctx handle.
IoFns == {"rados_stat", "rados_read", "rados_aio_stat", "rados_aio_read",
          "rados_ioctx_destroy"}

\* C1: connect succeeds at most once per cluster handle: connect on a
\* handle that is Connected or Shutdown is raised as an error, makes no
\* backend call and leaves the handle as it was.
C1_ConnectAtMostOnce ==
  [][\A c \in Clusters :
       /\ bk'[c].connects <= 1
       /\ (cl[c].state \in {"CONNECTED", "SHUTDOWN"} /\ lua_rados_connect(c))
            => (/\ last'.res = "argerror"
                /\ last'.calls = <<>>
                /\ cl' = cl
                /\ bk' = bk)]_vars

C1_Witness ==
  /\ last.op = "connect"
  /\ last.res = "argerror"
  /\ cl[last.obj].state = "CONNECTED"
  /\ bk[last.obj].connects = 1

\* C2: shutdown is accepted only on a Connected cluster, where it calls the
\* backend teardown once and moves the handle to Shutdown; on a Configuring
\* or Shutdown handle it is raised as an error, makes no backend call and
\* leaves the handle as it was.
C2_ShutdownOnlyConnected ==
  [][\A c \in Clusters :
       lua_rados_shutdown(c) =>
         IF cl[c].state = "CONNECTED"
           THEN /\ cl'[c].state = "SHUTDOWN"
                /\ bk'[c].shutdowns = bk[c].shutdowns + 1
                /\ last'.res = "ok"
                /\ Len(last'.calls) = 1
                /\ last'.calls[1].fn = "rados_shutdown"
           ELSE /\ last'.res = "argerror"
                /\ last'.calls = <<>>
                /\ cl' = cl
                /\ bk' = bk]_vars

C2_Witness ==
  /\ last.op = "shutdown"
  /\ last.res = "argerror"
  /\ cl[last.obj].state = "SHUTDOWN"
  /\ bk[last.obj].shutdowns = 1

\* C3: open_ioctx on a cluster that is not Connected is raised as an error;
\* it allocates no ioctx userdata, makes no backend call and records no
\* registry entry.
C3_OpenNeedsConnected ==
  [][\A c \in Clusters :
       (cl[c].state # "CONNECTED" /\ lua_rados_open_ioctx(c))
         => (/\ last'.res = "argerror"
             /\ last'.calls = <<>>
             /\ io' = io
             /\ mem' = mem
             /\ refs' = refs
             /\ host' = host)]_vars

C3_Witness ==
  /\ last.op = "open_ioctx"
  /\ last.res = "argerror"
  /\ cl[last.obj].state = "CONFIGURING"
  /\ \A i \in Ioctxs : io[i].state = "NONE"

\* C4: the native handle of a cluster is released at most once, by the
\* teardown path or by the allocator path, whatever the calls and
\* finalizer runs.
C4_ReleasedAtMostOnce ==
  \A c \in Clusters : ClusterReleases(c) <= 1

\* C5: an ioctx that is Open and that the host can still use was created
\* from a cluster whose native handle is not released, and no backend call
\* is made on an ioctx whose cluster was released.
C5_OpenIoctxClusterLive ==
  /\ \A i \in Ioctxs :
       (io[i].state = "OPEN" /\ IObj(i) \in host /\ io[i].owner # 0)
         => ClusterReleases(io[i].owner) = 0
  /\ \A n \in DOMAIN last.calls :
       (last.calls[n].fn \in IoFns /\ io[last.calls[n].h].owner # 0)
         => ClusterReleases(io[last.calls[n].h].owner) = 0

\* C6: while the host references an ioctx that open_ioctx returned, the
\* collector neither queues nor finalizes the cluster it was opened from.
C6_ClusterOutlivesIoctx ==
  \A i \in Ioctxs :
    (IObj(i) \in host /\ io[i].owner # 0) => mem[CObj(io[i].owner)] = "live"

C6_Witness ==
  \E i \in Ioctxs, j \in Ioctxs :
    /\ IObj(i) \in host
    /\ io[i].owner # 0
    /\ CObj(io[i].owner) \notin host
    /\ io[j].owner = io[i].owner
    /\ mem[IObj(j)] = "freed"
    /\ mem[CObj(io[i].owner)] = "live"

\* A cluster userdata that exists and that neither the host nor an ioctx
\* the host holds leads to.
Unreferenced(c) ==
  /\ mem[CObj(c)] # "none"
  /\ CObj(c) \notin host
  /\ \A i \in Ioctxs : io[i].owner = c => IObj(i) \notin host

\* C7: once the host references neither a cluster nor any ioctx opened
\* from it, the registry entries of those ioctxs disappear and the cluster
\* is eventually finalized.
C7_ClusterEventuallyFinalized ==
  \A c \in Clusters :
    Unreferenced(c) ~>
      (/\ mem[CObj(c)] = "finalized"
       /\ \A i \in Ioctxs : io[i].owner = c => refs[i] = 0)

C7_Witness ==
  \E c \in Clusters, i \in Ioctxs :
    /\ io[i].owner = c
    /\ mem[IObj(i)] = "freed"
    /\ refs[i] = 0
    /\ mem[CObj(c)] = "finalized"

\* C8: the first close of an Open ioctx destroys the native handle and
\* moves it to Closed; a later close is raised as an error and makes no
\* backend call; the native handle is destroyed at most once.
C8_CloseOnce ==
  [][\A i \in Ioctxs :
       /\ nat'[i].destroys <= 1
       /\ lua_rados_ioctx_close(i) =>
            IF io[i].state = "OPEN"
              THEN /\ io'[i].state = "CLOSED"
                   /\ nat'[i].destroys = nat[i].destroys + 1
                   /\ last'.res = "ok"
              ELSE /\ last'.res = "argerror"
                   /\ last'.calls = <<>>
                   /\ io' = io
                   /\ nat' = nat]_vars

C8_Witness ==
  /\ last.op = "close"
  /\ last.res = "argerror"
  /\ io[last.obj].state = "CLOSED"
  /\ nat[last.obj].destroys = 1

\* Some handler of ioctx i runs in this step.
IoctxCall(i) ==
  \/ lua_rados_ioctx_close(i)
  \/ \E loc \in Keys, oid \in OidArgs :
       \/ lua_rados_ioctx_stat(i, loc, oid)
       \/ lua_rados_ioctx_aio_stat(i, loc, oid)
       \/ \E size \in IoSizes, off \in IoOffs :
            \/ lua_rados_ioctx_read(i, loc, oid, size, off)
            \/ lua_rados_ioctx_aio_read(i, loc, oid, size, off)

\* C9: every operation on a Closed ioctx (stat, read, aio_stat, aio_read,
\* close) is raised as an error before any backend call: no Buffer and no
\* Completion is allocated, no token is created, the in-flight counter and
\* the locator key stay as they were, and no backend call ever gets a
\* destroyed ioctx handle.
C9_ClosedRejectsAll ==
  [][\A i \in Ioctxs :
       /\ (io[i].state = "CLOSED" /\ IoctxCall(i))
            => (/\ last'.res = "argerror"
                /\ last'.calls = <<>>
                /\ UNCHANGED <<io, nat, mem, host, comp, tok, bufs, active, heap>>)
       /\ \A n \in DOMAIN last'.calls :
            last'.calls[n].fn \in IoFns => ~last'.calls[n].dangling]_vars

C9_Witness ==
  /\ last.op = "aio_read"
  /\ last.res = "argerror"
  /\ io[last.obj].state = "CLOSED"
  /\ nat[last.obj].destroys = 1

\* The backend calls of the last handler were all made under key.
CallsUnder(rec, key) ==
  \A n \in DOMAIN rec.calls : rec.calls[n].fn \in IoFns => rec.calls[n].key = key

\* Some handler of ioctx i that takes a locator key runs in this step with
\* the key loc.
IoctxCallWith(i, loc) ==
  \E oid \in OidArgs :
    \/ lua_rados_ioctx_stat(i, loc, oid)
    \/ lua_rados_ioctx_aio_stat(i, loc, oid)
    \/ \E size \in IoSizes, off \in IoOffs :
         \/ lua_rados_ioctx_read(i, loc, oid, size, off)
         \/ lua_rados_ioctx_aio_read(i, loc, oid, size, off)

\* C10: every backend call or submission of stat, read, aio_stat and
\* aio_read is made under exactly the locator key given to that call, and
\* when a call has returned, with a value or with an error, the locator key
\* of the context is unset.
C10_LocatorScoped ==
  [][\A i \in Ioctxs :
       /\ nat'[i].key = "NULL"
       /\ \A loc \in Keys :
            CallsUnder(last', loc) \/ ~IoctxCallWith(i, loc)]_vars

\* A stat without a key, after an asynchronous read was submitted under
\* "k1", resolved the object stored without a key.
C10_Witness ==
  /\ last.op = "stat"
  /\ last.res = "ok"
  /\ last.val = <<2, 7>>
  /\ last.calls[1].key = "NULL"
  /\ tok[1].st = "pending"
  /\ tok[1].key = "k1"
  /\ comp[1].state = "READ"

\* C11: a synchronous read of N >= 0 bytes at offset 0 of an object of M
\* bytes returns the first min(N, M) bytes of the object, whatever N is; the
\* buffer it allocates has N bytes, and one byte when N = 0, where the
\* result is the empty sequence.  The one other outcome let through is that
\* of the environment: malloc refused the block of the buffer userdata that
\* the call allocated.
C11_ReadReturnsPrefix ==
  [][\A i \in Ioctxs, loc \in Keys, size \in ReadSizes :
       (size >= 0 /\ io[i].state = "OPEN"
          /\ lua_rados_ioctx_read(i, loc, "obj", size, 0))
         => LET obj == Stored(loc, "obj").bytes
                M == Len(obj)
            IN \/ /\ last'.res = "err"
                  /\ last'.ret = -ENOMEM
                  /\ last'.calls = <<>>
                  /\ \E b \in Bufs : Allocated(BObj(b)) /\ bufs'[b].ptr = "NULL"
               \/ /\ last'.res = "ok"
                  /\ Len(last'.val) = Min(size, M)
                  /\ last'.val = SubSeq(obj, 1, Min(size, M))
                  /\ size = 0 => last'.val = <<>>
                  /\ \A b \in Bufs :
                       bufs'[b] # bufs[b] =>
                         /\ bufs'[b].ptr = "PTR"
                         /\ bufs'[b].size = (IF size = 0 THEN 1 ELSE size)]_vars

\* The bytes the backend wrote for the read behind token k.
BytesRead(k) == rados_read(tok[k].key, tok[k].oid, tok[k].len, tok[k].off).bytes

\* C12: get_return_value on a completed read returns the bytes the backend
\* reports as read, tok.ret of them, and no byte the backend did not write.
C12_ResultTruncated ==
  [][\A k \in Comps :
       (/\ lua_rados_completion_get_return_value(k)
        /\ comp[k].state = "READ"
        /\ tok[k].st = "complete"
        /\ last'.res = "ok")
         => (/\ Len(last'.val[1]) = tok[k].ret
             /\ last'.val[1] = BytesRead(k))]_vars

\* C13: the block behind a read completion that the collector finalized is
\* not freed while the read is still pending.
C13_BufferNotFreedWhilePending ==
  \A k \in Comps :
    (/\ comp[k].state = "READ"
     /\ mem[KObj(k)] = "finalized"
     /\ heap[k].st = "freed")
      => tok[k].st # "pending"

\* C14: get_return_value on a completion whose operation is still pending
\* returns the nil-error protocol, and neither stat fields nor buffer
\* contents.
C14_PendingResultIsError ==
  [][\A k \in Comps :
       (lua_rados_completion_get_return_value(k) /\ tok[k].st = "pending")
         => (last'.res = "err" /\ last'.val = <<>>)]_vars

\* Some run of the __gc metamethod of completion k, by the host or by the
\* collector.
CompletionGcRun(k) == HostCompletionGc(k) \/ CollectorFinalizeCompletion(k)

\* C15: finalization releases the token of a completion once and the block
\* of a read completion once, the token first; the block is never free
\* while the token is not released; a stat completion frees no block; a
\* second run of the finalizer releases nothing.
C15_FinalizeOnce ==
  /\ [](\A k \in Comps :
          /\ tok[k].releases <= 1
          /\ heap[k].frees <= 1
          /\ (tok[k].st # "none" /\ comp[k].completion = "NULL")
               => tok[k].releases = 1
          /\ (tok[k].st # "none" /\ comp[k].completion # "NULL")
               => tok[k].releases = 0
          /\ heap[k].st = "freed"
               => (tok[k].st = "none" \/ tok[k].releases = 1)
          /\ comp[k].state = "STAT" => (heap[k].st = "none" /\ heap[k].frees = 0)
          /\ (mem[KObj(k)] = "finalized" /\ heap[k].st # "none")
               => heap[k].frees = 1)
  /\ [][\A k \in Comps :
          /\ CompletionGcRun(k) =>
               (/\ comp'[k].completion = "NULL"
                /\ tok[k].st # "none" => tok'[k].releases = 1
                /\ heap[k].st # "none" => heap'[k].frees = 1)
          /\ HostCompletionGc(k) =>
               (/\ Len(last'.calls) = 2 => last'.calls[1].fn = "rados_aio_release"
                /\ \A n \in DOMAIN last'.calls : ~last'.calls[n].dangling)
          /\ (HostCompletionGc(k) /\ last.op = "completion_gc" /\ last.obj = k)
               => (/\ last'.calls = <<>>
                   /\ UNCHANGED <<comp, tok, active, heap>>)]_vars

\* The finalizer of a read completion ran a second time: one release, one
\* free.
C15_Witness ==
  \E k \in Comps :
    /\ last.op = "completion_gc"
    /\ last.obj = k
    /\ last.calls = <<>>
    /\ comp[k].state = "READ"
    /\ tok[k].releases = 1
    /\ heap[k].frees = 1

\* C16: get_return_value on a completed completion returns two values for
\* a stat and one byte sequence for a read, changes neither the
\* completion, the token, the block nor the counter, and returns what a
\* further call returns.
C16_ResultIsPure ==
  [][\A k \in Comps :
       (/\ lua_rados_completion_get_return_value(k)
        /\ tok[k].st = "complete"
        /\ comp[k].completion # "NULL")
         => (/\ UNCHANGED <<comp, tok, bufs, active>>
             /\ heap'[k].st = heap[k].st
             /\ heap'[k].frees = heap[k].frees
             /\ last'.res = (IF tok[k].ret < 0 THEN "err" ELSE "ok")
             /\ last'.res = "ok" =>
                  (/\ comp[k].state = "STAT" =>
                        last'.val = rados_stat(tok[k].key, tok[k].oid).val
                   /\ Len(last'.val) = (IF comp[k].state = "STAT" THEN 2 ELSE 1)
                   /\ \A j \in JunkOf(k)' : last'.val = Harvest(k, j)'))]_vars

\* A completed read of 2 bytes, of which the backend wrote one, was
\* harvested.
C16_Witness ==
  \E k \in Comps :
    /\ last.op = "get_return_value"
    /\ last.obj = k
    /\ last.res = "ok"
    /\ tok[k].st = "complete"
    /\ last.val = <<(<<20, 170>>)>>
    /\ heap[k].junk = 170

\* C17: closing an ioctx releases no token and no block, and the handlers
\* of a completion give the outcome the token alone determines, whether
\* the ioctx it was submitted on is open or closed.
C17_CompletionOutlivesIoctx ==
  [][/\ \A i \in Ioctxs :
          lua_rados_ioctx_close(i) => UNCHANGED <<comp, tok, active, heap>>
     /\ \A k \in Comps :
          /\ lua_rados_completion_complete(k) =>
               (/\ last'.res = "ok"
                /\ last'.val = <<IF tok[k].st = "complete" THEN 1 ELSE 0>>)
          /\ WaitCall(k) =>
               (last'.res = "blocked" /\ UNCHANGED <<comp, tok, active, heap>>)
          /\ WaitReturn(k) =>
               (/\ last'.res = "ok"
                /\ tok[k].st = "complete"
                /\ UNCHANGED <<comp, tok, active, heap>>)
          /\ lua_rados_completion_get_return_value(k) =>
               (/\ last'.res = (IF tok[k].ret < 0 THEN "err" ELSE "ok")
                /\ last'.res = "err" => last'.ret = tok[k].ret
                /\ last'.res = "ok" => \E j \in Junk : last'.val = Harvest(k, j))]_vars

\* A completed stat was harvested after the ioctx it was submitted on was
\* closed.
C17_Witness ==
  \E k \in Comps :
    /\ last.op = "get_return_value"
    /\ last.obj = k
    /\ last.res = "ok"
    /\ last.val = <<2, 7>>
    /\ tok[k].ctx # 0
    /\ io[tok[k].ctx].state = "CLOSED"
    /\ tok[k].releases = 0

\* C18: finalizing a cluster that was created and never connected makes no
\* teardown call; its native handle is freed by the allocator path, once.
C18_NeverConnectedFreed ==
  /\ [](\A c \in Clusters :
          (bk[c].created /\ bk[c].connects = 0)
            => (/\ bk[c].shutdowns = 0
                /\ bk[c].frees <= 1
                /\ cl[c].state = "CONFIGURING" => bk[c].frees = 0
                /\ cl[c].state = "SHUTDOWN" => bk[c].frees = 1))
  /\ [][\A c \in Clusters :
          (cl[c].state = "CONFIGURING" /\ bk[c].created /\ HostClusterGc(c))
            => (/\ bk'[c].shutdowns = bk[c].shutdowns
                /\ bk'[c].frees = bk[c].frees + 1
                /\ cl'[c].cluster = "NULL"
                /\ Len(last'.calls) = 1
                /\ last'.calls[1].fn = "free"
                /\ ~last'.calls[1].dangling)]_vars

\* The finalizer ran on a cluster that was created and never connected.
C18_Witness ==
  /\ last.op = "cluster_gc"
  /\ bk[last.obj].created
  /\ bk[last.obj].connects = 0
  /\ bk[last.obj].frees = 1
  /\ bk[last.obj].shutdowns = 0

\* C19: a cluster whose backend create call failed is finalized without a
\* teardown and without a free of a handle that was never allocated.
C19_FailedCreateNotReleased ==
  \A c \in Clusters : ~bk[c].created => ClusterReleases(c) = 0

\* C20: open_ioctx with a pool the backend rejects returns nil, a message
\* and the status without raising, leaves the cluster Connected and
\* records nothing in the registry; open_ioctx with an existing pool on a
\* Connected cluster succeeds, also after such a failure.
C20_OpenFailureRecoverable ==
  [][\A c \in Clusters :
       /\ (cl[c].state = "CONNECTED" /\ lua_rados_open_ioctx_with(c, "asdlfk"))
            => (/\ last'.res = "err"
                /\ last'.val = <<>>
                /\ last'.ret < 0
                /\ cl' = cl
                /\ bk' = bk
                /\ refs' = refs
                /\ host' = host)
       /\ (cl[c].state = "CONNECTED" /\ lua_rados_open_ioctx_with(c, "rbd"))
            => (/\ last'.res = "ok"
                /\ \E i \in Ioctxs :
                     /\ last'.val = <<i>>
                     /\ io'[i].state = "OPEN"
                     /\ refs'[i] = c
                     /\ IObj(i) \in host')]_vars

\* An open_ioctx succeeded on the cluster on which an earlier open_ioctx
\* had failed.
C20_Witness ==
  \E i \in Ioctxs, j \in Ioctxs :
    /\ last.op = "open_ioctx"
    /\ last.res = "ok"
    /\ last.val = <<i>>
    /\ refs[i] = last.obj
    /\ cl[last.obj].state = "CONNECTED"
    /\ io[j].io = "UNINIT"
    /\ refs[j] = 0
    /\ j < i

\* A call on a handle in a lifecycle state its handler does not accept, by
\* the check the handler makes: lua_rados_checkcluster (conf_read_file, and
\* connect, which also refuses Connected), lua_rados_checkcluster_conn
\* (shutdown, open_ioctx, register), lua_rados_checkioctx (every ioctx
\* method), lua_rados_checkcluster_1 (is_connected, __gc: no state is
\* refused).  create takes no handle.
LifecycleFault(r) ==
  CASE r.op = "conf_read_file" -> cl[r.obj].state = "SHUTDOWN"
    [] r.op = "connect" -> cl[r.obj].state \in {"CONNECTED", "SHUTDOWN"}
    [] r.op \in {"shutdown", "open_ioctx", "register"} ->
         cl[r.obj].state # "CONNECTED"
    [] r.op \in {"close", "stat", "read", "aio_stat", "aio_read"} ->
         io[r.obj].state # "OPEN"
    [] r.op \in {"is_connected", "cluster_gc"} -> FALSE
    [] OTHER -> FALSE

\* The calls of the cluster and ioctx methods whose arguments are absent,
\* strings or integers, as the handler asks.
WellTypedCall ==
  \/ \E c \in Clusters :
       \/ lua_rados_conf_read_file(c)
       \/ lua_rados_connect(c)
       \/ lua_rados_is_connected(c)
       \/ lua_rados_shutdown(c)
       \/ \E pool \in (PoolArgs \cup LifePools) \ {NoString} :
            lua_rados_open_ioctx_with(c, pool)
       \/ \E service \in RegisterArgs \ {NoString},
             daemon \in RegisterArgs \ {NoString} :
            lua_rados_service_register(c, service, daemon)
       \/ HostClusterGc(c)
  \/ \E i \in Ioctxs :
       \/ lua_rados_ioctx_close(i)
       \/ \E loc \in Keys, oid \in LifeOids \ {NoString} :
            \/ lua_rados_ioctx_stat(i, loc, oid)
            \/ lua_rados_ioctx_aio_stat(i, loc, oid)
            \/ \E size \in LifeSizes :
                 \/ lua_rados_ioctx_read(i, loc, oid, size, 0)
                 \/ lua_rados_ioctx_aio_read(i, loc, oid, size, 0)

\* C21, as stated: a call whose arguments have the right types is never
\* raised as an error, whatever the state of the handle; its failures are
\* returned as nil, a message and a code.
C21_ExpectedFailuresReturned ==
  [][(last'.res = "argerror") => ~WellTypedCall]_vars

\* C21, as the code has it: a backend failure is returned as nil, a message
\* and the negative status after the backend call that failed, and the
\* allocator's refusal of a block as -ENOMEM, never raised; a call on a
\* handle in a lifecycle
\* state its handler refuses is raised as an argument error, exactly as a
\* wrong argument type is: conf_read_file and connect on a cluster that
\* had shutdown, connect on a connected cluster, shutdown, open_ioctx and
\* register on a cluster that is not connected, close, stat, read, aio_stat
\* and aio_read on a closed ioctx; is_connected and __gc refuse no state:
\* is_connected returns whether the cluster is connected (false once it
\* had shutdown) and __gc returns nothing, neither raised nor failed; a
\* call on a handle in a state its handler accepts with well-typed
\* arguments is never raised.
C21_LifecycleRaisedBackendReturned ==
  [][/\ LifecycleFault(last') => last'.res = "argerror"
     /\ (last'.res = "argerror" /\ ~LifecycleFault(last')) => ~WellTypedCall
     /\ last'.res = "err"
          => (/\ last'.ret < 0
              /\ last'.val = <<>>
              /\ ~LifecycleFault(last')
              /\ \/ Len(last'.calls) >= 1
                 \/ last'.ret = -ENOMEM)
     /\ \A c \in Clusters :
          /\ lua_rados_is_connected(c)
               => (/\ last'.res = "ok"
                   /\ last'.val = <<cl[c].state = "CONNECTED">>
                   /\ cl[c].state = "SHUTDOWN" => last'.val = <<FALSE>>)
          /\ HostClusterGc(c)
               => (last'.res = "ok" /\ last'.val = <<>>)]_vars

\* An open_ioctx with a pool name was raised on a cluster that was created
\* and not connected.
C21_Witness ==
  /\ last.op = "open_ioctx"
  /\ last.res = "argerror"
  /\ cl[last.obj].state = "CONFIGURING"
  /\ bk[last.obj].created
  /\ bk[last.obj].connects = 0

\* C22: create with no id, a nil id or a string id is not raised and, when
\* the backend creates the handle, returns a cluster in state Configuring;
\* create with an id of another type, a number or a table, is raised and
\* leaves no userdata behind.
C22_CreateIdTyped ==
  [][\A id \in IdArgs :
       lua_rados_create_with(id) =>
         IF id \in {NoId, NilId, "admin"}
           THEN /\ last'.res # "argerror"
                /\ last'.res = "ok"
                     => \E c \in Clusters :
                          /\ last'.val = <<c>>
                          /\ cl[c].state = "NONE"
                          /\ cl'[c].state = "CONFIGURING"
                          /\ CObj(c) \in host'
           ELSE /\ last'.res = "argerror"
                /\ cl' = cl
                /\ mem' = mem
                /\ host' = host]_vars

\* The size of the object oid under the locator key loc.
SizeOf(loc, oid) == Len(Stored(loc, oid).bytes)

\* C23: when read(oid, S, 0) has just returned the S bytes of an object of
\* size S under a locator key, get_return_value on a completed
\* aio_read(oid, S, 0) of the same ioctx under the same key returns exactly
\* the same bytes.
C23_SyncAsyncAgree ==
  [][\A k \in Comps :
       (/\ last.op = "read"
        /\ last.res = "ok"
        /\ tok[k].st = "complete"
        /\ tok[k].kind = "read"
        /\ tok[k].ctx = last.obj
        /\ tok[k].key = last.calls[1].key
        /\ tok[k].oid = "obj"
        /\ tok[k].off = 0
        /\ tok[k].len = SizeOf(tok[k].key, "obj")
        /\ Len(last.val) = tok[k].len
        /\ lua_rados_completion_get_return_value(k))
         => (/\ last'.res = "ok"
             /\ last'.val = <<last.val>>
             /\ Len(last'.val[1]) = SizeOf(tok[k].key, "obj"))]_vars

\* The result of a completed aio_read of the two bytes of "obj" was taken
\* after a synchronous read had filled its buffer.
C23_Witness ==
  \E k \in Comps, b \in Bufs :
    /\ last.op = "get_return_value"
    /\ last.obj = k
    /\ last.res = "ok"
    /\ last.val = <<Stored("NULL", "obj").bytes>>
    /\ tok[k].st = "complete"
    /\ tok[k].len = 2
    /\ bufs[b].ptr = "PTR"
    /\ bufs[b].size = 2

\* C24: the native handle of an ioctx that open_ioctx returned is destroyed
\* at most once, and it was destroyed once by the time the collector has
\* disposed of the userdata.
C24_IoctxReleasedExactlyOnce ==
  \A i \in Ioctxs :
    io[i].owner # 0
      => (/\ nat[i].destroys <= 1
          /\ mem[IObj(i)] = "freed" => nat[i].destroys = 1)

\* The order of the cluster states.
StateRank(s) ==
  CASE s = "NONE" -> 0
    [] s = "CONFIGURING" -> 1
    [] s = "CONNECTED" -> 2
    [] s = "SHUTDOWN" -> 3

\* C25: the state of a cluster handle never goes back: it starts in
\* Configuring, becomes Connected only by a connect whose backend call
\* succeeded, and never leaves Shutdown, whatever is called and also when
\* its finalizer runs; a connect that failed in the backend returns the
\* error and leaves the handle Configuring, where connect is accepted
\* again; conf_read_file never changes the state and is raised only on a
\* handle that had shutdown.
C25_LifecycleMonotonic ==
  [][\A c \in Clusters :
       /\ StateRank(cl'[c].state) >= StateRank(cl[c].state)
       /\ cl[c].state = "NONE" => cl'[c].state \in {"NONE", "CONFIGURING"}
       /\ cl[c].state = "SHUTDOWN" => cl'[c].state = "SHUTDOWN"
       /\ (cl[c].state # "CONNECTED" /\ cl'[c].state = "CONNECTED")
            => (/\ cl[c].state = "CONFIGURING"
                /\ last'.op = "connect"
                /\ last'.obj = c
                /\ last'.res = "ok"
                /\ last'.calls[1].fn = "rados_connect"
                /\ bk'[c].connects = bk[c].connects + 1)
       /\ (last'.op = "connect" /\ last'.obj = c /\ cl[c].state = "CONFIGURING")
            => (/\ last'.res \in {"ok", "err"}
                /\ last'.res = "err"
                     => (cl' = cl /\ bk' = bk /\ last'.ret < 0))
       /\ (last'.op = "conf_read_file" /\ last'.obj = c)
            => (/\ cl' = cl
                /\ (last'.res = "argerror") <=> (cl[c].state = "SHUTDOWN"))]_vars

\* The finalizer ran on a cluster that had shutdown after it was connected,
\* and the cluster is still Shutdown.
C25_Witness ==
  /\ last.op = "cluster_gc"
  /\ cl[last.obj].state = "SHUTDOWN"
  /\ bk[last.obj].connects = 1
  /\ bk[last.obj].shutdowns = 1
  /\ bk[last.obj].frees = 0

\* The tokens that rados_aio_create_completion created and that
\* rados_aio_release did not release yet.
LiveTokens == {k \in Comps : tok[k].st # "none" /\ tok[k].releases = 0}

\* A call of aio_stat or aio_read.
AioCall ==
  \E i \in Ioctxs :
    \/ \E oid \in AioOids : lua_rados_ioctx_aio_stat(i, "NULL", oid)
    \/ \E oid \in AioOids, size \in CountSizes :
         lua_rados_ioctx_aio_read(i, "NULL", oid, size, 0)

\* A call of is_complete, wait_for_complete or get_return_value.
HarvestCall ==
  \E k \in Comps :
    \/ lua_rados_completion_complete(k)
    \/ lua_rados_completion_wait_for_complete(k)
    \/ lua_rados_completion_get_return_value(k)

\* C26: active_completions is the number of tokens created and not yet
\* released, and is never negative; no token is released twice;
\* is_complete, wait_for_complete and get_return_value leave the counter as
\* it is, and so does a call of aio_stat or aio_read that fails before a
\* token exists.
C26_CounterCountsTokens ==
  /\ [](/\ active = Cardinality(LiveTokens)
        /\ active >= 0
        /\ \A k \in Comps : tok[k].releases <= 1)
  /\ [][/\ ~(active' # active /\ HarvestCall)
        /\ ~(/\ last'.op \in {"aio_stat", "aio_read"}
             /\ last'.res # "ok"
             /\ Len(last'.calls) = 0
             /\ (active' # active \/ tok' # tok)
             /\ AioCall)
        /\ \A k \in Comps :
             (tok[k].st = "none" /\ tok'[k].st # "none") => active' = active + 1]_vars

\* A token was created and counted, then released by the finalizer of its
\* completion, and the counter is back at zero.
C26_Witness ==
  \E k \in Comps :
    /\ tok[k].st # "none"
    /\ tok[k].releases = 1
    /\ mem[KObj(k)] = "finalized"
    /\ active = 0

\* C27: every block allocated for a read, by read and by aio_read, has a
\* size of at least 1, also when the length asked for is 0, and no block is
\* freed twice.
C27_BufferAtLeastOneByte ==
  /\ \A b \in Bufs :
       /\ bufs[b].ptr = "PTR" => bufs[b].size >= 1
       /\ bufs[b].frees <= 1
  /\ \A k \in Comps :
       /\ heap[k].st = "live" => comp[k].size >= 1
       /\ heap[k].frees <= 1

\* C28: when the backend rejects the submission of aio_stat or aio_read,
\* the call returns nil, a message and the backend status; the locator key
\* of the ioctx is cleared; the token created for the operation is counted,
\* stays with a completion the host did not get, and is released once, with
\* the counter decremented, when the collector finalizes that completion;
\* the block of an aio_read is freed once by the same finalization.
C28_RejectedSubmissionReleased ==
  /\ [][\A k \in Comps :
          /\ (tok[k].st = "none" /\ tok'[k].st = "idle")
               => (/\ last'.op \in {"aio_stat", "aio_read"}
                   /\ last'.res = "err"
                   /\ last'.ret \in BackendRets \ {0}
                   /\ last'.val = <<>>
                   /\ Len(last'.calls) = 2
                   /\ last'.calls[2].fn \in {"rados_aio_stat", "rados_aio_read"}
                   /\ nat'[tok'[k].ctx].key = "NULL"
                   /\ active' = active + 1
                   /\ tok'[k].releases = 0
                   /\ comp'[k].meta
                   /\ comp'[k].completion = "PTR"
                   /\ mem'[KObj(k)] = "live"
                   /\ KObj(k) \notin host')
          /\ (/\ tok[k].st = "idle"
              /\ mem[KObj(k)] = "tobefnz"
              /\ mem'[KObj(k)] = "finalized")
               => (/\ tok[k].releases = 0
                   /\ tok'[k].releases = 1
                   /\ active' = active - 1
                   /\ comp[k].state = "READ"
                        => (/\ heap[k].frees = 0
                            /\ heap'[k].frees = 1
                            /\ heap'[k].st = "freed"))]_vars
  /\ [](\A k \in Comps :
          tok[k].st = "idle"
            => (/\ KObj(k) \notin host
                /\ tok[k].releases <= 1
                /\ heap[k].frees <= 1
                /\ tok[k].releases = 1 <=> mem[KObj(k)] = "finalized"
                /\ comp[k].state = "READ"
                     => (heap[k].frees = 1 <=> mem[KObj(k)] = "finalized")))

\* The completion of an aio_read whose submission the backend rejected was
\* finalized: its token is released, its block freed, the counter at zero.
C28_Witness ==
  \E k \in Comps :
    /\ tok[k].st = "idle"
    /\ tok[k].kind = "read"
    /\ tok[k].key = "k1"
    /\ tok[k].releases = 1
    /\ heap[k].frees = 1
    /\ mem[KObj(k)] = "finalized"
    /\ active = 0

\* A step of a handler: only handlers write the result and allocate
\* userdata.
HandlerStep == last' # last \/ \E o \in Objects : Allocated(o)

\* C29: when the block of a read cannot be allocated, read and aio_read
\* return nil, a message and -ENOMEM, call neither rados_read nor the
\* submission, create no token and leave the counter and the locator key as
\* they were; the userdata they leave behind holds no block, and its
\* finalization frees nothing.
C29_AllocationFailure ==
  /\ [][/\ (/\ last'.op \in {"read", "aio_read"}
            /\ last'.res = "err"
            /\ last'.ret = -ENOMEM
            /\ HandlerStep)
             => (/\ last'.val = <<>>
                 /\ last'.calls = <<>>
                 /\ tok' = tok
                 /\ active' = active
                 /\ nat' = nat
                 /\ heap' = heap
                 /\ host' = host
                 /\ \A b \in Bufs : Allocated(BObj(b)) => bufs'[b].ptr = "NULL"
                 /\ \A k \in Comps :
                      Allocated(KObj(k))
                        => (/\ comp'[k].buf = "NULL"
                            /\ comp'[k].completion = "NULL"
                            /\ ~comp'[k].meta))
        /\ \A b \in Bufs :
             (Allocated(BObj(b)) /\ bufs'[b].ptr = "NULL")
               => (last'.op = "read" /\ last'.res = "err" /\ last'.ret = -ENOMEM)
        /\ \A k \in Comps :
             (Allocated(KObj(k)) /\ comp'[k].buf = "NULL")
               => (last'.op = "aio_read" /\ last'.res = "err"
                   /\ last'.ret = -ENOMEM)]_vars
  /\ [](/\ \A b \in Bufs :
             (mem[BObj(b)] # "none" /\ bufs[b].size = 0)
               => (bufs[b].ptr = "NULL" /\ bufs[b].frees = 0)
        /\ \A k \in Comps :
             (comp[k].state = "READ" /\ ~comp[k].meta)
               => (/\ heap[k].st = "none"
                   /\ heap[k].frees = 0
                   /\ tok[k].st = "none"
                   /\ mem[KObj(k)] \in {"live", "freed"}))

\* The collector finalized the buffer userdata of a read whose block
\* malloc had refused; nothing was freed.
C29_Witness ==
  \E b \in Bufs :
    /\ last.op = "read"
    /\ last.res = "err"
    /\ last.ret = -ENOMEM
    /\ mem[BObj(b)] = "finalized"
    /\ bufs[b].size = 0
    /\ bufs[b].frees = 0
    /\ active = 0

\* C30: wait_for_complete returns only when the backend reports the
\* operation complete and, with a backend that completes what was
\* submitted, it does return; an operation that is complete stays complete
\* and is_complete then reports 1; is_complete changes nothing of the
\* completion, its token, its block or the counter.
C30_WaitReturnsWhenComplete ==
  /\ [][/\ (last.res = "blocked" /\ last'.res # "blocked")
             => (/\ last'.op = "wait_for_complete"
                 /\ last'.obj = last.obj
                 /\ last'.res = "ok"
                 /\ tok[last.obj].st = "complete"
                 /\ tok'[last.obj].st = "complete")
        /\ \A k \in Comps : tok[k].st = "complete" => tok'[k].st = "complete"
        /\ (last' # last /\ last'.op = "is_complete")
             => (/\ last'.res = "ok"
                 /\ last'.val = <<IF tok[last'.obj].st = "complete" THEN 1 ELSE 0>>
                 /\ comp' = comp
                 /\ tok' = tok
                 /\ heap' = heap
                 /\ active' = active
                 /\ host' = host
                 /\ mem' = mem)]_vars
  /\ \A k \in Comps :
       (last.res = "blocked" /\ last.obj = k)
         ~> (/\ last.op = "wait_for_complete"
             /\ last.obj = k
             /\ last.res = "ok"
             /\ tok[k].st = "complete")

\* A wait_for_complete that was entered while the read was pending has
\* returned, and the read is complete.
C30_Witness ==
  \E k \in Comps :
    /\ last.op = "wait_for_complete"
    /\ last.obj = k
    /\ last.res = "ok"
    /\ tok[k].kind = "read"
    /\ tok[k].st = "complete"
    /\ tok[k].ret = 2

\* A call that the handler rejects: its handle is in a state the handler
\* does not accept, or the call was raised for one of its arguments.
Rejected(r) ==
  \/ r.res = "argerror"
  \/ LifecycleFault(r)
  \/ (r.op \in {"read", "aio_stat", "aio_read"} /\ io[r.obj].state # "OPEN")

\* C31: a call rejected for the state of its handle or for the type of an
\* argument is raised before any effect: it made no backend call,
\* allocated no userdata, no buffer and no completion, set no locator key,
\* left the counter of completions and the state of every handle as they
\* were.
C31_RejectedBeforeEffect ==
  [][Rejected(last')
       => (/\ last'.res = "argerror"
           /\ last'.calls = <<>>
           /\ last'.val = <<>>
           /\ UNCHANGED <<cl, bk, io, nat, refs, host, mem>>
           /\ UNCHANGED aioVars)]_vars

\* An aio_read was raised on a closed ioctx after completions and buffers
\* had been allocated by earlier calls; the locator key is not set.
C31_Witness ==
  \E k \in Comps, b \in Bufs :
    /\ last.op = "aio_read"
    /\ last.res = "argerror"
    /\ io[last.obj].state = "CLOSED"
    /\ nat[last.obj].key = "NULL"
    /\ tok[k].st = "pending"
    /\ bufs[b].ptr = "PTR"
    /\ active = 1

\* C32: whatever length a read is called with, the block that read hands
\* to rados_read is at least as large as the length it passes with it.
C32_BufferCoversLength ==
  [][\A i \in Ioctxs, size \in LuaIntegers :
       (/\ last'.calls # <<>>
        /\ \E loc \in Keys, oid \in WidthOids, off \in ReadOffs :
             lua_rados_ioctx_read(i, loc, oid, size, off))
         => \E b \in Bufs :
              /\ Allocated(BObj(b))
              /\ bufs'[b].ptr = "PTR"
              /\ bufs'[b].size >= ToSizeT(size)]_vars

====
